---- MODULE Spec2Model ----
(***************************************************************************)
(* simbotix_otel: the per-site OpenTelemetry WSGI wrapper of app.py.       *)
(*                                                                         *)
(* Strings are sequences of tokens.  A token is either one of the          *)
(* separator characters ":" "," "=" " " or a run of characters containing  *)
(* none of them, so that splitting and stripping act on a sequence as      *)
(* str.split and str.strip act on the string it spells.                    *)
(* An optional value (Python's None or a value) is the empty sequence or   *)
(* the one-element sequence holding the value.  Objects (providers,        *)
(* middlewares) live in heaps; an object's identity is its index, 0 is     *)
(* None.                                                                   *)
(***************************************************************************)
EXTENDS Integers, Sequences, FiniteSets, TLC

\* ------------------------------------------------------------------ bounds
NThreads == 2
MaxRequests == 3
MaxEnvChanges == 1
MaxHostLen == 3
MaxHeaderLen == 4

\* ------------------------------------------------------- values and helpers
None == <<>>
Some(v) == <<v>>

EmptyDict == [k \in {} |-> <<>>]

\* d = {k: v}: a dict that keeps its newest entry only
DictSet_evicting(d, k, v) == [x \in {k} |-> v]

\* d[k] = v
DictSet(d, k, v) == [x \in (DOMAIN d) \cup {k} |-> IF x = k THEN v ELSE d[x]]

\* position of the first c in s, 0 when s holds no c
IndexOf(s, c) ==
    IF \E i \in 1..Len(s) : s[i] = c
    THEN CHOOSE i \in 1..Len(s) : s[i] = c /\ \A j \in 1..(i - 1) : s[j] # c
    ELSE 0

\* str.split(sep): the pieces between every occurrence of sep
RECURSIVE split(_, _)
split(s, sep) ==
    LET i == IndexOf(s, sep)
    IN  IF i = 0 THEN <<s>>
        ELSE <<SubSeq(s, 1, i - 1)>> \o split(SubSeq(s, i + 1, Len(s)), sep)

\* str.split(sep, 1): at most one cut, at the first occurrence of sep
split1(s, sep) ==
    LET i == IndexOf(s, sep)
    IN  IF i = 0 THEN <<s>>
        ELSE <<SubSeq(s, 1, i - 1), SubSeq(s, i + 1, Len(s))>>

RECURSIVE lstrip(_)
lstrip(s) == IF s # <<>> /\ Head(s) = " " THEN lstrip(Tail(s)) ELSE s

RECURSIVE rstrip(_)
rstrip(s) ==
    IF s # <<>> /\ s[Len(s)] = " " THEN rstrip(SubSeq(s, 1, Len(s) - 1)) ELSE s

strip(s) == rstrip(lstrip(s))

\* ------------------------------------------------------ process environment
EnvNames ==
    {"OTEL_EXPORTER_OTLP_ENDPOINT", "OTEL_EXPORTER_OTLP_HEADERS",
     "OTEL_SERVICE_NAME", "OTEL_SERVICE_VERSION",
     "OTEL_DEPLOYMENT_ENVIRONMENT", "HOSTNAME"}

\* os.environ.get(name, default)
environ_get(e, name, default) == IF e[name] = None THEN default ELSE e[name][1]

\* os.uname().nodename
nodename == <<"node0">>

UnsetEnv == [n \in EnvNames |-> None]

\* the environments the process may be started in
InitEnvs ==
    { UnsetEnv,
      [UnsetEnv EXCEPT
         !["OTEL_EXPORTER_OTLP_ENDPOINT"] = Some(<<"http://collector">>),
         !["OTEL_EXPORTER_OTLP_HEADERS"] =
             Some(<<"authorization", "=", "k1", ",", "bad">>),
         !["OTEL_SERVICE_VERSION"] = Some(<<"16.0.0">>),
         !["OTEL_DEPLOYMENT_ENVIRONMENT"] = Some(<<"staging">>),
         !["HOSTNAME"] = Some(<<"web-1">>)] }

\* the names a later os.environ[name] = ... assigns: one that get_otel_config
\* reads and the one the resources read
ChangedNames == {"OTEL_EXPORTER_OTLP_HEADERS", "HOSTNAME"}

\* the value a later os.environ[name] = ... may store
ChangedValue(name) ==
    IF name = "OTEL_EXPORTER_OTLP_HEADERS"
    THEN <<"x", "=", "2">>
    ELSE <<"changed">>

\* ------------------------------------------------------------ configuration
get_otel_config(e) ==
    [endpoint |-> environ_get(e, "OTEL_EXPORTER_OTLP_ENDPOINT",
                              <<"https://otel.appz.studio">>),
     headers |-> environ_get(e, "OTEL_EXPORTER_OTLP_HEADERS", <<>>),
     service_name |-> environ_get(e, "OTEL_SERVICE_NAME", <<"frappe">>),
     service_version |-> environ_get(e, "OTEL_SERVICE_VERSION", <<"15.91.0">>),
     environment |-> environ_get(e, "OTEL_DEPLOYMENT_ENVIRONMENT",
                                 <<"production">>)]

\* parse_headers' loop storing with headers.setdefault: the first item of a
\* key keeps its value
RECURSIVE parse_items_setdefault(_, _)
parse_items_setdefault(items, headers) ==
    IF items = <<>> THEN headers
    ELSE LET item == Head(items)
         IN  IF IndexOf(item, "=") # 0
             THEN LET kv == split1(item, "=")
                      key == strip(kv[1])
                  IN  parse_items_setdefault(
                          Tail(items),
                          IF key \in DOMAIN headers THEN headers
                          ELSE DictSet(headers, key, strip(kv[2])))
             ELSE parse_items_setdefault(Tail(items), headers)

\* the loop of parse_headers, app.py:56-59: headers after the items
RECURSIVE parse_items(_, _)
parse_items(items, headers) ==
    IF items = <<>> THEN headers
    ELSE LET item == Head(items)
         IN  IF IndexOf(item, "=") # 0
             THEN LET kv == split1(item, "=")
                  IN  parse_items(Tail(items),
                                  DictSet(headers, strip(kv[1]), strip(kv[2])))
             ELSE parse_items(Tail(items), headers)

parse_headers(headers_str) ==
    IF headers_str = <<>> THEN EmptyDict
    ELSE parse_items(split(headers_str, ","), EmptyDict)

\* get_config() without its "if _config is None": every call reads os.environ
get_config_reread(config, headers, e) ==
    [config |-> Some(get_otel_config(e)),
     headers |-> Some(parse_headers(get_otel_config(e).headers))]

\* get_config(): the (_config, _headers) pair after the call, which is also
\* the pair it returns
get_config(config, headers, e) ==
    IF config = None
    THEN [config |-> Some(get_otel_config(e)),
          headers |-> Some(parse_headers(get_otel_config(e).headers))]
    ELSE [config |-> config, headers |-> headers]

\* ------------------------------------------------------------ tenant key
unknown == <<"unknown">>
frappe_web == <<"frappe-web">>

\* s.rsplit(sep, 1)[0]: s cut at its last sep
rsplit1_head(s, sep) ==
    IF \E i \in 1..Len(s) : s[i] = sep
    THEN LET last == CHOOSE i \in 1..Len(s) :
                        s[i] = sep /\ \A j \in (i + 1)..Len(s) : s[j] # sep
         IN  SubSeq(s, 1, last - 1)
    ELSE s

\* get_site_from_host cutting at the last ":" instead of the first
get_site_from_host_rsplit(host) ==
    IF host = None \/ host[1] = <<>> THEN unknown
    ELSE rsplit1_head(host[1], ":")

get_site_from_host(host) ==
    IF host = None \/ host[1] = <<>> THEN unknown
    ELSE split(host[1], ":")[1]

\* ------------------------------------------------------------------ state
VARIABLES
    env,                \* os.environ
    envChanges,         \* number of assignments to os.environ so far
    _config,            \* module global, None until get_config has run
    _headers,           \* module global, None until get_config has run
    _tracer_providers,  \* module global: site name -> tracer provider
    _logger_providers,  \* module global: site name -> logger provider
    _meter_provider,    \* module global
    _otel_handler,      \* module global: the provider the LoggingHandler feeds
    providers,          \* heap of the provider objects constructed so far
    otel_globals,       \* the SDK's process-wide tracer/meter/logger provider
    instrumented,       \* the library instrumentors have been applied
    application,        \* module global: TRUE once the wrapper object exists
    _wsgi_middlewares,  \* application._wsgi_middlewares: site -> middleware
    middlewares,        \* heap of the OpenTelemetryMiddleware objects
    mainPc,             \* position of the module import (app.py:236-246)
    setupCalls,         \* number of calls of setup_global_telemetry
    pc,                 \* position of each worker thread
    frame,              \* locals of each worker thread's request
    requests,           \* number of requests dispatched so far
    served,             \* history: the requests handed to a site middleware
    returned,           \* history: <<site, provider>> of every returned
                        \* get_tracer_provider_for_site call
    failed,             \* history: the hosts of the requests that a raising
                        \* constructor has ended
    resolvedEnv,        \* history: os.environ as the first get_config call
                        \* read it, noted when that call returns
    unit                \* a function applied on its own: argument and result

vars ==
    <<env, envChanges, _config, _headers, _tracer_providers, _logger_providers,
      _meter_provider, _otel_handler, providers, otel_globals, instrumented,
      application, _wsgi_middlewares, middlewares, mainPc, setupCalls, pc,
      frame, requests, served, returned, failed, resolvedEnv, unit>>

moduleGlobals ==
    <<_config, _headers, _tracer_providers, _logger_providers, _meter_provider,
      _otel_handler, providers, otel_globals, instrumented, application,
      _wsgi_middlewares, middlewares, mainPc, setupCalls>>

workerVars == <<pc, frame, requests, served, returned, failed>>

\* the worker threads of the server
Threads == DOMAIN pc

\* the locals of a worker thread that is serving no request
IdleFrame ==
    [environ |-> [n \in {"HTTP_HOST", "OTEL_SITE_NAME"} |-> None],
     site_name |-> <<>>,
     tracer_provider |-> 0,
     middleware |-> 0,
     seen |-> {},
     after_failure |-> FALSE,
     built |-> FALSE,
     handler_environ |-> None,
     handler_result |-> "none",
     span |-> None,
     result |-> "none"]

\* the process before app.py is imported: a server of the given worker
\* threads, started in one of the given environments
Start(workers, envs) ==
    /\ env \in envs
    /\ envChanges = 0
    /\ _config = None
    /\ _headers = None
    /\ _tracer_providers = EmptyDict
    /\ _logger_providers = EmptyDict
    /\ _meter_provider = 0
    /\ _otel_handler = 0
    /\ providers = <<>>
    /\ otel_globals = [tracer_provider |-> 0, meter_provider |-> 0,
                       logger_provider |-> 0]
    /\ instrumented = FALSE
    /\ application = FALSE
    /\ _wsgi_middlewares = EmptyDict
    /\ middlewares = <<>>
    /\ mainPc = "import"
    /\ setupCalls = 0
    /\ pc = [t \in workers |-> "idle"]
    /\ frame = [t \in workers |-> IdleFrame]
    /\ requests = 0
    /\ served = {}
    /\ returned = {}
    /\ failed = {}
    /\ resolvedEnv = None

Init ==
    /\ Start(1..NThreads, InitEnvs)
    /\ unit = [fn |-> "none", arg |-> None, ret |-> None]

\* ------------------------------------------------------ provider objects
\* Resource.create({...}) of get_tracer_provider_for_site and
\* get_logger_provider_for_site
SiteResource(site_name, config, e) ==
    [service_name |-> site_name,
     service_version |-> config.service_version,
     deployment_environment |-> config.environment,
     host_name |-> environ_get(e, "HOSTNAME", nodename),
     frappe_site |-> site_name,
     service_type |-> frappe_web]

\* a TracerProvider whose exporter takes its headers from os.environ as it is
\* when the provider is built
TracerProvider_environ_headers(site_name, config, headers, e) ==
    [kind |-> "trace",
     resource |-> SiteResource(site_name, config, e),
     endpoint |-> config.endpoint \o <<"/v1/traces">>,
     headers |->
         parse_headers(environ_get(e, "OTEL_EXPORTER_OTLP_HEADERS", <<>>))]

\* the TracerProvider with its OTLPSpanExporter
TracerProvider(site_name, config, headers, e) ==
    [kind |-> "trace",
     resource |-> SiteResource(site_name, config, e),
     endpoint |-> config.endpoint \o <<"/v1/traces">>,
     headers |-> headers]

\* the LoggerProvider with its OTLPLogExporter
LoggerProvider(site_name, config, headers, e) ==
    [kind |-> "log",
     resource |-> SiteResource(site_name, config, e),
     endpoint |-> config.endpoint \o <<"/v1/logs">>,
     headers |-> headers]

\* the MeterProvider with its OTLPMetricExporter
MeterProvider(config, headers, e) ==
    [kind |-> "metric",
     resource |-> [service_name |-> frappe_web,
                   service_version |-> config.service_version,
                   deployment_environment |-> config.environment,
                   host_name |-> environ_get(e, "HOSTNAME", nodename)],
     endpoint |-> config.endpoint \o <<"/v1/metrics">>,
     headers |-> headers]

\* ------------------------------------------------- module import (main)
\* os.environ[name] = value by code of the wrapped application, which runs
\* once the import has ended
EnvChange(name) ==
    /\ mainPc = "serving"
    /\ envChanges < MaxEnvChanges
    /\ env' = [env EXCEPT ![name] = Some(ChangedValue(name))]
    /\ envChanges' = envChanges + 1
    /\ UNCHANGED <<unit, resolvedEnv, moduleGlobals, workerVars>>

\* app.py:237 enters setup_global_telemetry, whose app.py:155 calls
\* get_config: app.py:74-75 _config = get_otel_config()
SetupConfig ==
    /\ mainPc = "import"
    /\ setupCalls' = setupCalls + 1
    /\ IF _config = None
       THEN /\ _config' = Some(get_otel_config(env))
            /\ mainPc' = "headers"
       ELSE /\ mainPc' = "metrics"
            /\ UNCHANGED _config
    /\ UNCHANGED <<unit, resolvedEnv, env, envChanges, _headers,
                   _tracer_providers, _logger_providers, _meter_provider,
                   _otel_handler, providers, otel_globals, instrumented,
                   application, _wsgi_middlewares, middlewares, workerVars>>

\* app.py:76-77 _headers = parse_headers(_config["headers"]), and get_config
\* returns to app.py:155; os.environ is still as app.py:75 read it
SetupHeaders ==
    /\ mainPc = "headers"
    /\ _headers' = Some(parse_headers(_config[1].headers))
    /\ resolvedEnv' = Some(env)
    /\ mainPc' = "metrics"
    /\ UNCHANGED <<unit, env, envChanges, _config, _tracer_providers,
                   _logger_providers, _meter_provider, _otel_handler,
                   providers, otel_globals, instrumented, application,
                   _wsgi_middlewares, middlewares, setupCalls, workerVars>>

\* app.py:158-175; a constructor that raises ends the import
SetupMetrics ==
    /\ mainPc = "metrics"
    /\ \/ /\ providers' =
                Append(providers, MeterProvider(_config[1], _headers[1], env))
          /\ _meter_provider' = Len(providers) + 1
          /\ otel_globals' =
                [otel_globals EXCEPT !.meter_provider = Len(providers) + 1]
          /\ mainPc' = "tracer"
       \/ /\ mainPc' = "failed"
          /\ UNCHANGED <<providers, _meter_provider, otel_globals>>
    /\ UNCHANGED <<unit, resolvedEnv, env, envChanges, _config, _headers,
                   _tracer_providers, _logger_providers, _otel_handler,
                   instrumented, application, _wsgi_middlewares, middlewares,
                   setupCalls, workerVars>>

\* setup_global_telemetry building the default tracer provider on its own,
\* outside _tracer_providers
SetupDefaultTracer_uncached ==
    /\ mainPc = "tracer"
    /\ \/ /\ providers' =
                Append(providers,
                       TracerProvider(frappe_web, _config[1], _headers[1],
                                      env))
          /\ otel_globals' =
                [otel_globals EXCEPT !.tracer_provider = Len(providers) + 1]
          /\ mainPc' = "logger"
       \/ /\ mainPc' = "failed"
          /\ UNCHANGED <<providers, otel_globals>>
    /\ UNCHANGED <<unit, resolvedEnv, env, envChanges, _config, _headers,
                   _tracer_providers, _logger_providers, _meter_provider,
                   _otel_handler, instrumented, application,
                   _wsgi_middlewares, middlewares, setupCalls, workerVars>>

\* app.py:178-179: get_tracer_provider_for_site("frappe-web") run to its end
\* by the importing thread, then trace.set_tracer_provider
SetupDefaultTracer ==
    /\ mainPc = "tracer"
    /\ IF frappe_web \in DOMAIN _tracer_providers
       THEN /\ otel_globals' =
                  [otel_globals EXCEPT
                     !.tracer_provider = _tracer_providers[frappe_web]]
            /\ returned' =
                  returned \cup {<<frappe_web, _tracer_providers[frappe_web]>>}
            /\ mainPc' = "logger"
            /\ UNCHANGED <<_config, _headers, providers, _tracer_providers>>
       ELSE LET c == get_config(_config, _headers, env)
                new == Len(providers) + 1
            IN  /\ _config' = c.config
                /\ _headers' = c.headers
                /\ \/ /\ providers' =
                            Append(providers,
                                   TracerProvider(frappe_web, c.config[1],
                                                  c.headers[1], env))
                      /\ _tracer_providers' =
                            DictSet(_tracer_providers, frappe_web, new)
                      /\ otel_globals' =
                            [otel_globals EXCEPT !.tracer_provider = new]
                      /\ returned' = returned \cup {<<frappe_web, new>>}
                      /\ mainPc' = "logger"
                   \/ /\ mainPc' = "failed"
                      /\ UNCHANGED <<providers, _tracer_providers,
                                     otel_globals, returned>>
    /\ resolvedEnv' = IF _config = None THEN Some(env) ELSE resolvedEnv
    /\ UNCHANGED <<unit, env, envChanges, _logger_providers, _meter_provider,
                   _otel_handler, instrumented, application, _wsgi_middlewares,
                   middlewares, setupCalls, pc, frame, requests, served,
                   failed>>

\* app.py:182-183: get_logger_provider_for_site("frappe-web") run to its end
\* by the importing thread, then set_logger_provider
SetupDefaultLogger ==
    /\ mainPc = "logger"
    /\ IF frappe_web \in DOMAIN _logger_providers
       THEN /\ otel_globals' =
                  [otel_globals EXCEPT
                     !.logger_provider = _logger_providers[frappe_web]]
            /\ mainPc' = "handler"
            /\ UNCHANGED <<_config, _headers, providers, _logger_providers>>
       ELSE LET c == get_config(_config, _headers, env)
                new == Len(providers) + 1
            IN  /\ _config' = c.config
                /\ _headers' = c.headers
                /\ \/ /\ providers' =
                            Append(providers,
                                   LoggerProvider(frappe_web, c.config[1],
                                                  c.headers[1], env))
                      /\ _logger_providers' =
                            DictSet(_logger_providers, frappe_web, new)
                      /\ otel_globals' =
                            [otel_globals EXCEPT !.logger_provider = new]
                      /\ mainPc' = "handler"
                   \/ /\ mainPc' = "failed"
                      /\ UNCHANGED <<providers, _logger_providers,
                                     otel_globals>>
    /\ resolvedEnv' = IF _config = None THEN Some(env) ELSE resolvedEnv
    /\ UNCHANGED <<unit, env, envChanges, _tracer_providers, _meter_provider,
                   _otel_handler, instrumented, application, _wsgi_middlewares,
                   middlewares, setupCalls, workerVars>>

\* app.py:186-193: the LoggingHandler on the default logger provider
SetupHandler ==
    /\ mainPc = "handler"
    /\ _otel_handler' = otel_globals.logger_provider
    /\ mainPc' = "instrument"
    /\ UNCHANGED <<unit, resolvedEnv, env, envChanges, _config, _headers,
                   _tracer_providers, _logger_providers, _meter_provider,
                   providers, otel_globals, instrumented, application,
                   _wsgi_middlewares, middlewares, setupCalls, workerVars>>

\* app.py:196-200, after which setup_global_telemetry returns
SetupInstrument ==
    /\ mainPc = "instrument"
    /\ instrumented' = TRUE
    /\ mainPc' = "wrap"
    /\ UNCHANGED <<unit, resolvedEnv, env, envChanges, _config, _headers,
                   _tracer_providers, _logger_providers, _meter_provider,
                   _otel_handler, providers, otel_globals, application,
                   _wsgi_middlewares, middlewares, setupCalls, workerVars>>

\* the wrapper built before setup_global_telemetry has been called
CreateApplication_BeforeSetup ==
    /\ mainPc = "import"
    /\ ~application
    /\ application' = TRUE
    /\ _wsgi_middlewares' = EmptyDict
    /\ UNCHANGED <<unit, resolvedEnv, env, envChanges, _config, _headers,
                   _tracer_providers, _logger_providers, _meter_provider,
                   _otel_handler, providers, otel_globals, instrumented,
                   middlewares, mainPc, setupCalls, workerVars>>

\* app.py:240-243: application = SiteAwareOTelMiddleware(frappe_application);
\* the server accepts requests once the import has ended
CreateApplication ==
    /\ mainPc = "wrap"
    /\ application' = TRUE
    /\ _wsgi_middlewares' = EmptyDict
    /\ mainPc' = "serving"
    /\ UNCHANGED <<unit, resolvedEnv, env, envChanges, _config, _headers,
                   _tracer_providers, _logger_providers, _meter_provider,
                   _otel_handler, providers, otel_globals, instrumented,
                   middlewares, setupCalls, workerVars>>

\* ---------------------------------------------------------- worker threads
\* the request environments the server hands to the application
RequestEnvirons ==
    LET E(h, s) == [n \in {"HTTP_HOST", "OTEL_SITE_NAME"} |->
                       IF n = "HTTP_HOST" THEN h ELSE s]
    IN  { E(None, None),
          E(Some(<<"tenantA.example.com", ":", "443">>), None),
          E(Some(<<"tenantA.example.com">>), Some(<<"stale">>)),
          E(Some(<<"frappe-web", ":", "8000">>), None),
          E(Some(<<"frappe-web">>), None) }

\* what the wrapped Frappe application does with a request
HandlerResults == {"200 OK", "ValueError"}

\* SiteAwareOTelMiddleware.__call__ app.py:224-225 and the test of
\* _get_middleware_for_site app.py:214.  Worker threads are interchangeable:
\* the server hands a request to its first idle worker.
Dispatch(t, environ) ==
    /\ application
    /\ mainPc = "serving"
    /\ pc[t] = "idle"
    /\ \A u \in Threads : u < t => pc[u] # "idle"
    /\ requests < MaxRequests
    /\ requests' = requests + 1
    /\ LET host == environ_get(environ, "HTTP_HOST", <<>>)
           site_name == get_site_from_host(Some(host))
       IN  /\ frame' = [frame EXCEPT
                          ![t] = [IdleFrame EXCEPT !.environ = environ,
                                                   !.site_name = site_name]]
           /\ pc' = [pc EXCEPT
                       ![t] = IF site_name \notin DOMAIN _wsgi_middlewares
                              THEN "tracer_check"
                              ELSE "middleware_return"]
    /\ UNCHANGED <<unit, resolvedEnv, env, envChanges, moduleGlobals, served,
                   returned, failed>>

\* the call of app.py:215 and the test of get_tracer_provider_for_site
\* app.py:93; the frame notes what the calls for this key that have ended
\* before this one starts have returned, and whether one of them raised
TracerCheck(t) ==
    /\ pc[t] = "tracer_check"
    /\ frame' = [frame EXCEPT
                   ![t].seen = {r[2] : r \in {x \in returned :
                                                 x[1] = frame[t].site_name}},
                   ![t].after_failure =
                       \E h \in failed :
                           get_site_from_host(h) = frame[t].site_name]
    /\ pc' = [pc EXCEPT
                ![t] = IF frame[t].site_name \in DOMAIN _tracer_providers
                       THEN "tracer_hit"
                       ELSE "tracer_construct"]
    /\ UNCHANGED <<unit, resolvedEnv, env, envChanges, moduleGlobals, requests,
                   served, returned, failed>>

\* app.py:94: return _tracer_providers[site_name]
TracerHit(t) ==
    /\ pc[t] = "tracer_hit"
    /\ LET tracer_provider == _tracer_providers[frame[t].site_name]
       IN  /\ frame' = [frame EXCEPT ![t].tracer_provider = tracer_provider]
           /\ returned' =
                 returned \cup {<<frame[t].site_name, tracer_provider>>}
    /\ pc' = [pc EXCEPT ![t] = "middleware_store"]
    /\ UNCHANGED <<unit, resolvedEnv, env, envChanges, moduleGlobals, requests,
                   served, failed>>

\* get_tracer_provider_for_site storing the provider before the span
\* processor is added: add_span_processor raises and the entry stays
TracerConstruct_StoreFirst(t) ==
    /\ pc[t] = "tracer_construct"
    /\ LET c == get_config(_config, _headers, env)
           new == Len(providers) + 1
       IN  /\ _config' = c.config
           /\ _headers' = c.headers
           /\ providers' =
                 Append(providers,
                        TracerProvider(frame[t].site_name, c.config[1],
                                       c.headers[1], env))
           /\ \/ /\ frame' = [frame EXCEPT ![t].tracer_provider = new,
                                            ![t].built = TRUE]
                 /\ pc' = [pc EXCEPT ![t] = "tracer_insert"]
                 /\ UNCHANGED <<failed, _tracer_providers>>
              \/ /\ frame' = [frame EXCEPT ![t].result = "ConstructionError"]
                 /\ pc' = [pc EXCEPT ![t] = "done"]
                 /\ failed' = failed \cup {frame[t].environ["HTTP_HOST"]}
                 /\ _tracer_providers' =
                       DictSet(_tracer_providers, frame[t].site_name, new)
    /\ resolvedEnv' = IF _config = None THEN Some(env) ELSE resolvedEnv
    /\ UNCHANGED <<unit, env, envChanges, _logger_providers, _meter_provider,
                   _otel_handler, otel_globals, instrumented, application,
                   _wsgi_middlewares, middlewares, mainPc, setupCalls,
                   requests, served, returned>>

\* app.py:96-114: config, headers = get_config(), then the resource, the
\* exporter and the provider; a constructor that raises ends the request with
\* that error (app.py:215, 228: no middleware, no handler)
TracerConstruct(t) ==
    /\ pc[t] = "tracer_construct"
    /\ LET c == get_config(_config, _headers, env)
       IN  /\ _config' = c.config
           /\ _headers' = c.headers
           /\ \/ /\ providers' =
                       Append(providers,
                              TracerProvider(frame[t].site_name, c.config[1],
                                             c.headers[1], env))
                 /\ frame' = [frame EXCEPT
                                ![t].tracer_provider = Len(providers) + 1,
                                ![t].built = TRUE]
                 /\ pc' = [pc EXCEPT ![t] = "tracer_insert"]
                 /\ UNCHANGED failed
              \/ /\ frame' = [frame EXCEPT ![t].result = "ConstructionError"]
                 /\ pc' = [pc EXCEPT ![t] = "done"]
                 /\ failed' = failed \cup {frame[t].environ["HTTP_HOST"]}
                 /\ UNCHANGED providers
    /\ resolvedEnv' = IF _config = None THEN Some(env) ELSE resolvedEnv
    /\ UNCHANGED <<unit, env, envChanges, _tracer_providers, _logger_providers,
                   _meter_provider, _otel_handler, otel_globals, instrumented,
                   application, _wsgi_middlewares, middlewares, mainPc,
                   setupCalls, requests, served, returned>>

\* app.py:116-117: _tracer_providers[site_name] = tracer_provider; return
TracerInsert(t) ==
    /\ pc[t] = "tracer_insert"
    /\ _tracer_providers' =
          DictSet(_tracer_providers, frame[t].site_name,
                  frame[t].tracer_provider)
    /\ returned' =
          returned \cup {<<frame[t].site_name, frame[t].tracer_provider>>}
    /\ pc' = [pc EXCEPT ![t] = "middleware_store"]
    /\ UNCHANGED <<unit, resolvedEnv, env, envChanges, _config, _headers,
                   _logger_providers, _meter_provider, _otel_handler,
                   providers, otel_globals, instrumented, application,
                   _wsgi_middlewares, middlewares, mainPc, setupCalls, frame,
                   requests, served, failed>>

\* _get_middleware_for_site that also calls get_logger_provider_for_site for
\* the request's site
MiddlewareStore_with_logger(t) ==
    /\ pc[t] = "middleware_store"
    /\ middlewares' =
          Append(middlewares,
                 [tracer_provider |-> frame[t].tracer_provider])
    /\ _wsgi_middlewares' =
          DictSet(_wsgi_middlewares, frame[t].site_name, Len(middlewares) + 1)
    /\ IF frame[t].site_name \in DOMAIN _logger_providers
       THEN UNCHANGED <<providers, _logger_providers>>
       ELSE /\ providers' =
                  Append(providers,
                         LoggerProvider(frame[t].site_name, _config[1],
                                        _headers[1], env))
            /\ _logger_providers' =
                  DictSet(_logger_providers, frame[t].site_name,
                          Len(providers) + 1)
    /\ pc' = [pc EXCEPT ![t] = "middleware_return"]
    /\ UNCHANGED <<unit, resolvedEnv, env, envChanges, _config, _headers,
                   _tracer_providers, _meter_provider, _otel_handler,
                   otel_globals, instrumented, application, mainPc,
                   setupCalls, frame, requests, served, returned, failed>>

\* app.py:216-219: self._wsgi_middlewares[site_name] =
\* OpenTelemetryMiddleware(self.app, tracer_provider=tracer_provider)
MiddlewareStore(t) ==
    /\ pc[t] = "middleware_store"
    /\ middlewares' =
          Append(middlewares,
                 [tracer_provider |-> frame[t].tracer_provider])
    /\ _wsgi_middlewares' =
          DictSet(_wsgi_middlewares, frame[t].site_name, Len(middlewares) + 1)
    /\ pc' = [pc EXCEPT ![t] = "middleware_return"]
    /\ UNCHANGED <<unit, resolvedEnv, env, envChanges, _config, _headers,
                   _tracer_providers, _logger_providers, _meter_provider,
                   _otel_handler, providers, otel_globals, instrumented,
                   application, mainPc, setupCalls, frame, requests, served,
                   returned, failed>>

\* a wrapper that answers 500 where the site middleware raised
call_return_swallowed(middleware_result) ==
    IF middleware_result = "200 OK" THEN middleware_result
    ELSE "500 Internal Server Error"

\* app.py:233 return middleware(environ, start_response): what __call__ hands
\* its caller is what the site middleware returned or raised
call_return(middleware_result) == middleware_result

\* environ.setdefault("OTEL_SITE_NAME", site_name): a value that is already
\* in the request environment stays
environ_set_site_name_setdefault(environ, site_name) ==
    IF environ["OTEL_SITE_NAME"] = None
    THEN [environ EXCEPT !["OTEL_SITE_NAME"] = Some(site_name)]
    ELSE environ

\* app.py:231 environ["OTEL_SITE_NAME"] = site_name
environ_set_site_name(environ, site_name) ==
    [environ EXCEPT !["OTEL_SITE_NAME"] = Some(site_name)]

\* app.py:220 return self._wsgi_middlewares[site_name], app.py:231
\* environ["OTEL_SITE_NAME"] = site_name and app.py:233 return
\* middleware(environ, start_response): the site middleware opens the request
\* span on its tracer provider, invokes the wrapped application with environ,
\* ends the span with the status or the error and lets the result or the
\* error through
CallMiddleware(t, handler_result) ==
    /\ pc[t] = "middleware_return"
    /\ LET middleware == _wsgi_middlewares[frame[t].site_name]
           tracer_provider == middlewares[middleware].tracer_provider
           environ == environ_set_site_name(frame[t].environ,
                                            frame[t].site_name)
       IN  /\ frame' = [frame EXCEPT
                          ![t].middleware = middleware,
                          ![t].environ = environ,
                          ![t].handler_environ = Some(environ),
                          ![t].handler_result = handler_result,
                          ![t].span = Some([tracer_provider |-> tracer_provider,
                                            status |-> handler_result,
                                            ended |-> TRUE]),
                          ![t].result = call_return(handler_result)]
           /\ served' =
                 served \cup {[host |-> frame[t].environ["HTTP_HOST"],
                               site_name |-> frame[t].site_name,
                               middleware |-> middleware,
                               tracer_provider |-> tracer_provider]}
    /\ pc' = [pc EXCEPT ![t] = "done"]
    /\ UNCHANGED <<unit, resolvedEnv, env, envChanges, moduleGlobals, requests,
                   returned, failed>>

\* the server has the response or the error of __call__; the worker is idle
Finish(t) ==
    /\ pc[t] = "done"
    /\ pc' = [pc EXCEPT ![t] = "idle"]
    /\ frame' = [frame EXCEPT ![t] = IdleFrame]
    /\ UNCHANGED <<unit, resolvedEnv, env, envChanges, moduleGlobals, requests,
                   served, returned, failed>>

\* ------------------------------------------------------------ specification
\* the import of app.py, app.py:236-243
Import ==
    \/ SetupConfig
    \/ SetupHeaders
    \/ SetupMetrics
    \/ SetupDefaultTracer
    \/ SetupDefaultLogger
    \/ SetupHandler
    \/ SetupInstrument
    \/ CreateApplication

\* the requests of the worker threads
Serve ==
    \/ \E t \in Threads, environ \in RequestEnvirons : Dispatch(t, environ)
    \/ \E t \in Threads : TracerCheck(t)
    \/ \E t \in Threads : TracerHit(t)
    \/ \E t \in Threads : TracerConstruct(t)
    \/ \E t \in Threads : TracerInsert(t)
    \/ \E t \in Threads : MiddlewareStore(t)
    \/ \E t \in Threads, r \in HandlerResults : CallMiddleware(t, r)
    \/ \E t \in Threads : Finish(t)

Next ==
    \/ \E name \in ChangedNames : EnvChange(name)
    \/ Import
    \/ Serve

Spec == Init /\ [][Next]_vars

\* a server with one more worker thread, started with no variable set, in a
\* process that never assigns to os.environ
InitRace ==
    /\ Start(1..(NThreads + 1), {UnsetEnv})
    /\ unit = [fn |-> "none", arg |-> None, ret |-> None]

NextRace ==
    \/ Import
    \/ Serve

SpecRace == InitRace /\ [][NextRace]_vars

\* ------------------------------------------- get_site_from_host on its own
HostTokens == {"a", "A", ":", "443"}

\* the host header values of at most MaxHostLen tokens
Hosts == UNION {[1..n -> HostTokens] : n \in 0..MaxHostLen}

InitExtract ==
    /\ Start(1..NThreads, {UnsetEnv})
    /\ unit \in {[fn |-> "get_site_from_host", arg |-> a, ret |-> None] :
                   a \in {None} \cup {Some(h) : h \in Hosts}}

\* site = get_site_from_host(host)
ExtractSite ==
    /\ unit.fn = "get_site_from_host"
    /\ unit.ret = None
    /\ unit' = [unit EXCEPT !.ret = Some(get_site_from_host(unit.arg))]
    /\ UNCHANGED <<resolvedEnv, env, envChanges, moduleGlobals, workerVars>>

NextExtract == ExtractSite

SpecExtract == InitExtract /\ [][NextExtract]_vars

\* ------------------------------------------------- parse_headers on its own
HeaderTokens == {"a", "b", "1", "=", ",", " "}

\* the header strings of at most MaxHeaderLen tokens, and four longer ones
HeaderStrings ==
    UNION {[1..n -> HeaderTokens] : n \in 0..MaxHeaderLen}
        \cup {<<"a", "=", "1", ",", "b", "=", "2">>,
              <<"bad", ",", "noequals">>,
              <<"a", "=", "1", ",", "a", "=", "2">>,
              <<" ", "a", " ", "=", " ", "1", "=", "2", " ", ",", ",", "b">>}

InitParse ==
    /\ Start(1..NThreads, {UnsetEnv})
    /\ unit \in {[fn |-> "parse_headers", arg |-> h, ret |-> None] :
                   h \in HeaderStrings}

\* headers = parse_headers(headers_str)
ParseHeaders ==
    /\ unit.fn = "parse_headers"
    /\ unit.ret = None
    /\ unit' = [unit EXCEPT !.ret = Some(parse_headers(unit.arg))]
    /\ UNCHANGED <<resolvedEnv, env, envChanges, moduleGlobals, workerVars>>

NextParse == ParseHeaders

SpecParse == InitParse /\ [][NextParse]_vars

\* ===================================================================== claims
TraceProviders == {i \in DOMAIN providers : providers[i].kind = "trace"}

HandlerErrors == HandlerResults \ {"200 OK"}

\* C1: for every tenant key at most one tracer provider is ever constructed,
\* and every get_tracer_provider_for_site call for that key returns that one
\* provider, whatever the interleaving of the calls.
C1_OneHandlePerKey ==
    /\ \A i, j \in TraceProviders :
          providers[i].resource.frappe_site = providers[j].resource.frappe_site
              => i = j
    /\ \A r1, r2 \in returned : r1[1] = r2[1] => r1[2] = r2[2]

\* C2: a key of _tracer_providers or _logger_providers keeps its provider in
\* every step: no entry is removed and none is replaced by another provider.
C2_InsertionOnly ==
    [][/\ \A k \in DOMAIN _tracer_providers :
             /\ k \in DOMAIN _tracer_providers'
             /\ _tracer_providers'[k] = _tracer_providers[k]
       /\ \A k \in DOMAIN _logger_providers :
             /\ k \in DOMAIN _logger_providers'
             /\ _logger_providers'[k] = _logger_providers[k]]_vars

\* C3: a get_tracer_provider_for_site(k) call that starts after a call for k
\* has returned constructs nothing and returns the provider that earlier call
\* returned.
C3_LaterCallIsHit ==
    \A t \in Threads :
        (pc[t] = "middleware_store" /\ frame[t].seen # {})
            => /\ ~frame[t].built
               /\ frame[t].seen = {frame[t].tracer_provider}

\* C4: setup_global_telemetry is called at most once, and whenever the
\* application object exists or a request is being served it has been called
\* once and has finished: the configuration is resolved, the meter provider
\* and the default tracer and logger providers are installed, the logging
\* handler and the instrumentors are in place.
C4_SetupBeforeApplication ==
    /\ setupCalls <= 1
    /\ (application \/ \E t \in Threads : pc[t] # "idle")
          => /\ setupCalls = 1
             /\ _config # None
             /\ _headers # None
             /\ _meter_provider \in DOMAIN providers
             /\ providers[_meter_provider].kind = "metric"
             /\ otel_globals.meter_provider = _meter_provider
             /\ frappe_web \in DOMAIN _tracer_providers
             /\ otel_globals.tracer_provider \in TraceProviders
             /\ frappe_web \in DOMAIN _logger_providers
             /\ otel_globals.logger_provider = _logger_providers[frappe_web]
             /\ providers[otel_globals.logger_provider].kind = "log"
             /\ _otel_handler = otel_globals.logger_provider
             /\ instrumented

\* a request has gone through the wrapper and its handler has answered
C4_Witness ==
    \E t \in Threads : pc[t] = "done" /\ frame[t].handler_result = "200 OK"

\* C5: two requests whose hosts differ only in the port suffix (the same
\* text before the first ":") get the same tenant key and are served by the
\* same tracer provider.
C5_PortlessHostSameHandle ==
    \A r1, r2 \in served :
        get_site_from_host(r1.host) = get_site_from_host(r2.host)
            => /\ r1.site_name = r2.site_name
               /\ r1.tracer_provider = r2.tracer_provider

C7_PrefixBeforeFirstColon ==
    (unit.fn = "get_site_from_host" /\ unit.ret # None)
        => LET site == unit.ret[1]
           IN  IF unit.arg = None \/ unit.arg[1] = <<>>
               THEN site = unknown
               ELSE LET host == unit.arg[1]
                    IN  /\ Len(site) <= Len(host)
                        /\ site = SubSeq(host, 1, Len(site))
                        /\ \A i \in 1..Len(site) : site[i] # ":"
                        /\ Len(site) < Len(host) => host[Len(site) + 1] = ":"

\* a host with two ":" has been cut at the first
C7_Witness ==
    /\ unit.arg = Some(<<"A", ":", ":">>)
    /\ unit.ret = Some(<<"A">>)

\* C8: the configuration is what os.environ held when get_config first ran,
\* and every provider is built from that environment alone: endpoint,
\* headers, service version, deployment environment and host name.
C8_EnvironmentReadOnce ==
    resolvedEnv # None
        => LET first == resolvedEnv[1]
               config == get_otel_config(first)
           IN  /\ _config = Some(config)
               /\ _headers = Some(parse_headers(config.headers))
               /\ \A i \in DOMAIN providers :
                     /\ SubSeq(providers[i].endpoint, 1, Len(config.endpoint))
                           = config.endpoint
                     /\ providers[i].headers = parse_headers(config.headers)
                     /\ providers[i].resource.service_version
                           = config.service_version
                     /\ providers[i].resource.deployment_environment
                           = config.environment
                     /\ providers[i].resource.host_name
                           = environ_get(first, "HOSTNAME", nodename)

\* C9: a step of a request leaves _config, _headers, _meter_provider,
\* _otel_handler, the logger providers, the process-wide providers and every
\* provider object already built as they were.
C9_RequestLeavesGlobals ==
    [][Serve => /\ UNCHANGED <<_config, _headers, _meter_provider,
                               _otel_handler, _logger_providers, otel_globals>>
                /\ \A i \in DOMAIN providers :
                      /\ i \in DOMAIN providers'
                      /\ providers'[i] = providers[i]]_vars

\* a request has built a tracer provider and has been answered
C9_Witness ==
    \E t \in Threads :
        pc[t] = "done" /\ frame[t].built /\ frame[t].result = "200 OK"

\* C10: calls of get_tracer_provider_for_site for two different keys return
\* two different providers whose resources agree on service version,
\* deployment environment, host name and service type.
C10_DistinctHandlesSameLabels ==
    \A r1, r2 \in returned :
        r1[1] # r2[1]
            => /\ r1[2] # r2[2]
               /\ LET a == providers[r1[2]].resource
                      b == providers[r2[2]].resource
                  IN  /\ a.service_version = b.service_version
                      /\ a.deployment_environment = b.deployment_environment
                      /\ a.host_name = b.host_name
                      /\ a.service_type = b.service_type

\* the comma-separated items of s, each as the pair of the positions that
\* bound it: a "," or an end of s on either side and no "," in between
ItemBounds(s) ==
    LET cuts == {0, Len(s) + 1} \cup {i \in 1..Len(s) : s[i] = ","}
    IN  {b \in cuts \X cuts :
            b[1] < b[2] /\ \A c \in cuts : ~(b[1] < c /\ c < b[2])}

ItemText(s, b) == SubSeq(s, b[1] + 1, b[2] - 1)

\* the items of s that contain "="
ItemsWithEq(s) ==
    {b \in ItemBounds(s) : \E i \in 1..Len(ItemText(s, b)) :
                              ItemText(s, b)[i] = "="}

\* the trimmed text before, and after, the first "=" of an item
ItemKey(s, b) ==
    LET item == ItemText(s, b)
    IN  strip(SubSeq(item, 1, IndexOf(item, "=") - 1))

ItemValue(s, b) ==
    LET item == ItemText(s, b)
    IN  strip(SubSeq(item, IndexOf(item, "=") + 1, Len(item)))

\* C11 as stated: parse_headers returns one entry for each comma-separated
\* item that contains "=", the trimmed text before the item's first "="
\* mapped to the trimmed text after it.
C11_OneEntryPerItem ==
    (unit.fn = "parse_headers" /\ unit.ret # None)
        => LET s == unit.arg
               headers == unit.ret[1]
           IN  /\ Cardinality(DOMAIN headers) = Cardinality(ItemsWithEq(s))
               /\ \A b \in ItemsWithEq(s) :
                     /\ ItemKey(s, b) \in DOMAIN headers
                     /\ headers[ItemKey(s, b)] = ItemValue(s, b)

\* C11: parse_headers returns, for every input string, the map whose keys
\* are the trimmed texts before the first "=" of the comma-separated items
\* that contain "=", each key mapped to the trimmed text after the first "="
\* of the last item with that key; items without "=" add nothing, so
\* "a=1,b=2" gives {a: 1, b: 2}, and "bad,noequals" and "" give {}.
C11_LastItemOfKeyWins ==
    (unit.fn = "parse_headers" /\ unit.ret # None)
        => LET s == unit.arg
               headers == unit.ret[1]
           IN  /\ DOMAIN headers = {ItemKey(s, b) : b \in ItemsWithEq(s)}
               /\ \A b \in ItemsWithEq(s) :
                     (\A c \in ItemsWithEq(s) :
                         ItemKey(s, c) = ItemKey(s, b) => c[1] <= b[1])
                         => headers[ItemKey(s, b)] = ItemValue(s, b)
               /\ s = <<"a", "=", "1", ",", "b", "=", "2">>
                     => headers = DictSet(DictSet(EmptyDict, <<"a">>, <<"1">>),
                                          <<"b">>, <<"2">>)
               /\ s \in {<<"bad", ",", "noequals">>, <<>>}
                     => headers = EmptyDict

\* two items with the same key have been parsed into one entry
C11_Witness ==
    /\ unit.arg = <<"a", "=", "1", ",", "a", "=", "2">>
    /\ unit.ret = Some(DictSet(EmptyDict, <<"a">>, <<"2">>))

\* no request is in flight in the server that the import has started
Quiescent == mainPc = "serving" /\ \A t \in Threads : pc[t] = "idle"

\* C12 as stated: with no request in flight the keys of _tracer_providers
\* are "frappe-web" and the tenant key of every request dispatched so far.
C12_KeysOfDispatchedRequests ==
    Quiescent
        => DOMAIN _tracer_providers =
              {frappe_web}
                  \cup {get_site_from_host(r.host) : r \in served}
                  \cup {get_site_from_host(h) : h \in failed}

\* C12: with no request in flight the keys of _tracer_providers are
\* "frappe-web" and the tenant key of every request dispatched so far that
\* no raising constructor has ended; no step removes a key, and the cache
\* holds one entry for each distinct tenant key.
C12_NoEviction ==
    /\ [](Quiescent
             => /\ DOMAIN _tracer_providers =
                      {frappe_web}
                          \cup {get_site_from_host(r.host) : r \in served}
                /\ \A k \in DOMAIN _tracer_providers :
                      _tracer_providers[k] \in TraceProviders)
    /\ [][DOMAIN _tracer_providers \subseteq DOMAIN _tracer_providers']_vars

\* requests of two tenants have been served after a constructor had ended
\* another request, and no request is in flight
C12_Witness ==
    /\ Quiescent
    /\ failed # {}
    /\ {unknown, <<"tenantA.example.com">>} \subseteq DOMAIN _tracer_providers

\* C13: whatever the interleaving, the middleware that _wsgi_middlewares
\* holds for a key is bound to the tracer provider that _tracer_providers
\* holds for that key, and every request has been served by a middleware
\* bound to the provider _tracer_providers holds for the request's key.
C13_MiddlewareBoundToCachedHandle ==
    /\ \A k \in DOMAIN _wsgi_middlewares :
          /\ k \in DOMAIN _tracer_providers
          /\ middlewares[_wsgi_middlewares[k]].tracer_provider
                = _tracer_providers[k]
    /\ \A r \in served :
          /\ middlewares[r.middleware].tracer_provider = r.tracer_provider
          /\ r.tracer_provider = _tracer_providers[r.site_name]

\* C14: the step that invokes the wrapped application hands it the request
\* environment as it was, except that OTEL_SITE_NAME holds the tenant key of
\* that request's own HTTP_HOST, whatever OTEL_SITE_NAME held before.
C14_SiteNameSetBeforeHandler ==
    [][\A t \in Threads :
          (pc[t] = "middleware_return" /\ pc'[t] = "done")
              => LET before == frame[t].environ
                     site == get_site_from_host(before["HTTP_HOST"])
                 IN  /\ frame'[t].handler_result # "none"
                     /\ frame'[t].handler_environ # None
                     /\ frame'[t].handler_environ[1]["OTEL_SITE_NAME"]
                           = Some(site)
                     /\ frame'[t].handler_environ[1]["HTTP_HOST"]
                           = before["HTTP_HOST"]]_vars

\* the request that came with OTEL_SITE_NAME "stale" has reached the wrapped
\* application with its own tenant key
C14_Witness ==
    \E t \in Threads :
        /\ pc[t] = "done"
        /\ frame[t].handler_environ # None
        /\ \E e \in RequestEnvirons :
              /\ e["OTEL_SITE_NAME"] = Some(<<"stale">>)
              /\ e["HTTP_HOST"] = frame[t].handler_environ[1]["HTTP_HOST"]
        /\ frame[t].handler_environ[1]["OTEL_SITE_NAME"]
              = Some(<<"tenantA.example.com">>)

\* C15: the step in which a constructor of get_tracer_provider_for_site
\* raises ends the request with that error, the wrapped application not
\* invoked, and leaves _tracer_providers, _wsgi_middlewares and every other
\* module global as they were; and a call for a key that starts after such a
\* failure, the cache holding no entry for the key, goes on to construct.
C15_ConstructionFailureLeavesCaches ==
    [][\A t \in Threads :
          /\ (pc[t] = "tracer_construct" /\ pc'[t] = "done")
                => /\ frame'[t].result = "ConstructionError"
                   /\ frame'[t].handler_result = "none"
                   /\ frame'[t].handler_environ = None
                   /\ frame[t].site_name \in DOMAIN _tracer_providers'
                         => frame[t].site_name \in DOMAIN _tracer_providers
                   /\ UNCHANGED moduleGlobals
          /\ (/\ pc[t] = "tracer_check"
              /\ pc'[t] # "tracer_check"
              /\ \E h \in failed : get_site_from_host(h) = frame[t].site_name
              /\ frame[t].site_name \notin DOMAIN _tracer_providers)
                => pc'[t] = "tracer_construct"]_vars

\* a call for a key that started after a constructor had raised for that key
\* has built a provider
C15_Witness ==
    \E t \in Threads :
        /\ pc[t] = "tracer_insert"
        /\ frame[t].after_failure
        /\ frame[t].built

\* the collector endpoint a provider's exporter was given, without the
\* signal's path
BaseEndpoint(i) ==
    SubSeq(providers[i].endpoint, 1, Len(providers[i].endpoint) - 1)

\* C16: the meter provider, every tracer provider and the logger provider
\* have the endpoint of the one _config and the header map of the one
\* _headers, which is a map and not None; and no provider is built in a
\* state in which _config or _headers is still None.
C16_OneConfigurationSnapshot ==
    /\ [](/\ \A i, j \in DOMAIN providers :
               /\ BaseEndpoint(i) = BaseEndpoint(j)
               /\ providers[i].headers = providers[j].headers
          /\ \A i \in DOMAIN providers :
               /\ _config # None
               /\ _headers # None
               /\ BaseEndpoint(i) = _config[1].endpoint
               /\ providers[i].headers = _headers[1]
               /\ DOMAIN providers[i].headers \subseteq Seq(STRING))
    /\ [][providers' # providers
             => /\ _config # None
                /\ _headers # None
                /\ UNCHANGED <<_config, _headers>>]_vars

\* the meter provider, the logger provider, the default tracer provider and
\* the tracer providers of two tenants exist, and os.environ is no longer
\* what get_config read
C16_Witness ==
    /\ envChanges > 0
    /\ \E i \in DOMAIN providers : providers[i].kind = "metric"
    /\ \E i \in DOMAIN providers : providers[i].kind = "log"
    /\ \E i, j, k \in TraceProviders :
          /\ providers[i].resource.frappe_site = frappe_web
          /\ providers[j].resource.frappe_site = unknown
          /\ providers[k].resource.frappe_site = <<"tenantA.example.com">>

LogProviders == {i \in DOMAIN providers : providers[i].kind = "log"}

C18_DefaultHandleServesFrappeWeb ==
    /\ otel_globals.tracer_provider # 0
          => /\ frappe_web \in DOMAIN _tracer_providers
             /\ _tracer_providers[frappe_web] = otel_globals.tracer_provider
             /\ \A i \in TraceProviders :
                   providers[i].resource.frappe_site = frappe_web
                       => i = otel_globals.tracer_provider
    /\ \A t \in Threads :
          (pc[t] # "idle"
             /\ get_site_from_host(frame[t].environ["HTTP_HOST"]) = frappe_web)
              => /\ ~frame[t].built
                 /\ pc[t] # "tracer_construct"
                 /\ frame[t].tracer_provider
                       \in {0, otel_globals.tracer_provider}
    /\ \A r \in served :
          get_site_from_host(r.host) = frappe_web
              => r.tracer_provider = otel_globals.tracer_provider

\* a request for "frappe-web:8000" and one for "frappe-web" have been served
C18_Witness ==
    \E r1, r2 \in served :
        /\ r1.host = Some(<<"frappe-web", ":", "8000">>)
        /\ r2.host = Some(<<"frappe-web">>)
        /\ r1.tracer_provider = r2.tracer_provider

====
